---- MODULE Spec2Model ----
(***************************************************************************)
(* Model of the UPSC daily current-affairs automation                      *)
(* (scripts/create_upsc_video.py, scripts/generate_upsc_script.py,         *)
(* scripts/run_upsc_daily.py, scripts/scrape_news.py,                      *)
(* scripts/fetch_upsc_news.py, scripts/upload_youtube_auto.py).            *)
(*                                                                         *)
(* Texts handed to the chunker are sequences of one-character strings.     *)
(***************************************************************************)
EXTENDS Integers, Sequences, FiniteSets, TLC

VARIABLES
    \* --- split_text_into_chunks called on its own ---
    text,        \* the `text` argument
    max_chars,   \* the `max_chars` argument
    chunks,      \* the returned list (once called)
    split_pc,    \* "ready" before the call, "done" after it
    \* --- the process ---
    entry,       \* which script was started (its __main__ block)
    pc,          \* position in the running script
    exit_code,   \* process exit status, NoExit while running
    gemini_key,  \* os.getenv('GEMINI_API_KEY') is set
    azure_creds, \* AZURE_SPEECH_KEY and AZURE_SPEECH_REGION are set
    \* --- files under output/upsc, keyed by today's date ---
    prior_run,   \* an earlier run for the same date left its files (history)
    news_file,   \* news/daily_news_<date>.json: NoFile or the article list
    script_file, \* scripts/script_<date>.txt: NoFile or its characters
    audio_file,  \* audio/audio_<date>.mp3: "none", "old", "new" or "partial"
    bg_file,     \* backgrounds/bg_<date>.png
    thumb_file,  \* thumbnails/thumb_<date>.png
    video_file,  \* videos/current_affairs_<date>.mp4
    chunk_disk,  \* chunks/chunk_NNN.mp3: index -> "none", "old" or "new"
    \* --- UPSCScriptGenerator.generate_hindi_script ---
    articles,    \* news_data['articles']
    item_i,      \* loop variable i of `for i in range(10)`
    news_items,  \* the item bodies collected so far
    item_calls,  \* responses of the requests made for the current item
    short_text,  \* the too-short first text while the retry is pending
    script,      \* the assembled script, NoScript before
    only_failures, \* history: every generation request so far has failed
    sent_articles, \* history: the article of each generation request, in order
    \* --- UPSCVideoCreator.generate_audio / create_complete_video ---
    audio_chunks, \* chunks of the script read from script_file
    ci,          \* chunks already attempted by the synthesis loop
    synth_ok,    \* outcome of each synthesis call made in this run
    chunk_files, \* the list chunk_files
    slept,       \* history: for each synthesis call, time.sleep(2) ran after it
    combine_in,  \* the files handed to cp / ffmpeg concat, NoCombine before
    result,      \* return value of create_complete_video
    \* --- stage bookkeeping (history) ---
    started,     \* stages started, in order
    completed,   \* stages that completed successfully, in order
    failed,      \* the stage that failed fatally, NoStage if none
    \* --- upload_youtube_auto.py, started after the run has ended ---
    uploaded,    \* "pending" before it ran, then what it published
    \* --- UPSCVideoCreator.get_news_background_from_pexels ---
    pexels,      \* history: how the stock-photo request went, "none" before
    bg_kind,     \* the background this run wrote: "none", "solid" or "photo"
    \* --- the news collectors called on their own ---
    collector,   \* "UPSCNewsCollector", "NewsScraper" or "none"
    src_i,       \* sources already fetched
    all_articles, \* the list all_articles / all_news
    fetch_log,   \* history: what each fetched source delivered
    news_out,    \* the returned list (once returned)
    news_pc      \* "fetch", "returned", "done"; "idle" in the other runs

splitVars == <<text, max_chars, chunks, split_pc>>
procVars == <<entry, pc, exit_code, gemini_key, azure_creds>>
diskVars == <<news_file, script_file, audio_file, bg_file, thumb_file,
              video_file, chunk_disk>>
genVars == <<articles, item_i, news_items, item_calls, short_text, script,
             only_failures, sent_articles>>
audioVars == <<audio_chunks, ci, synth_ok, chunk_files, slept, combine_in,
               result>>
stageVars == <<started, completed, failed>>
bgVars == <<pexels, bg_kind>>
newsVars == <<collector, src_i, all_articles, fetch_log, news_out, news_pc>>

vars == <<splitVars, procVars, diskVars, genVars, audioVars, stageVars,
          prior_run, uploaded, bgVars, newsVars>>

-----------------------------------------------------------------------------
(* Bounds of the chunker's inputs *)

MaxLen == 5
MaxBudget == 6

Alphabet == {"a", " ", ".", "!", "?"}

RECURSIVE TextsOfLen(_)
TextsOfLen(n) ==
    IF n = 0 THEN {<<>>}
    ELSE {Append(t, c) : t \in TextsOfLen(n - 1), c \in Alphabet}

Texts == UNION {TextsOfLen(n) : n \in 0..MaxLen}

-----------------------------------------------------------------------------
(* Python string primitives used by split_text_into_chunks *)

\* str.replace(old, new) for one-character old/new
Replace(t, old, new) == [i \in 1..Len(t) |-> IF t[i] = old THEN new ELSE t[i]]

\* str.split(sep): always returns at least one (possibly empty) piece
RECURSIVE SplitFrom(_, _, _, _)
SplitFrom(t, sep, i, cur) ==
    IF i > Len(t) THEN <<cur>>
    ELSE IF t[i] = sep THEN <<cur>> \o SplitFrom(t, sep, i + 1, <<>>)
    ELSE SplitFrom(t, sep, i + 1, Append(cur, t[i]))

Split(t, sep) == SplitFrom(t, sep, 1, <<>>)

\* str.strip(): drop leading and trailing whitespace
RECURSIVE LStrip(_)
LStrip(t) == IF t # <<>> /\ Head(t) = " " THEN LStrip(Tail(t)) ELSE t

RECURSIVE RStrip(_)
RStrip(t) ==
    IF t # <<>> /\ t[Len(t)] = " " THEN RStrip(SubSeq(t, 1, Len(t) - 1)) ELSE t

Strip(t) == RStrip(LStrip(t))

-----------------------------------------------------------------------------
(* UPSCVideoCreator.split_text_into_chunks *)

\* line 265: text.replace('!', '.').replace('?', '.').split('.')
RawSentences(t) == Split(Replace(Replace(t, "!", "."), "?", "."), ".")

\* a chunker that forgets the sentence that triggered a flush
ChunkStepDropsSentence(st, rawSentence, budget) ==
    LET sentence == Strip(rawSentence)
        sentence_with_period == sentence \o <<".", " ">>
        current == st[1]
        out == st[2]
    IN  IF sentence = <<>> THEN st
        ELSE IF Len(current) + Len(sentence_with_period) > budget
             THEN <<(IF current # <<>> THEN <<>> ELSE sentence_with_period),
                    (IF current # <<>> THEN Append(out, Strip(current)) ELSE out)>>
             ELSE <<current \o sentence_with_period, out>>

\* the body of the for loop (lines 269-281) on state <<current, chunks>>
ChunkStep(st, rawSentence, budget) ==
    LET sentence == Strip(rawSentence)
        sentence_with_period == sentence \o <<".", " ">>
        current == st[1]
        out == st[2]
    IN  IF sentence = <<>> THEN st
        ELSE IF Len(current) + Len(sentence_with_period) > budget
             THEN <<sentence_with_period,
                    (IF current # <<>> THEN Append(out, Strip(current)) ELSE out)>>
             ELSE <<current \o sentence_with_period, out>>

RECURSIVE ChunkLoop(_, _, _, _)
ChunkLoop(sentences, i, st, budget) ==
    IF i > Len(sentences) THEN st
    ELSE ChunkLoop(sentences, i + 1, ChunkStep(st, sentences[i], budget), budget)

\* a chunker whose last flush does not look whether anything is left
split_text_into_chunks_flushes_always(t, budget) ==
    LET st == ChunkLoop(RawSentences(t), 1, <<<<>>, <<>>>>, budget)
    IN  Append(st[2], Strip(st[1]))

\* lines 264-286
split_text_into_chunks(t, budget) ==
    LET st == ChunkLoop(RawSentences(t), 1, <<<<>>, <<>>>>, budget)
    IN  IF st[1] # <<>> THEN Append(st[2], Strip(st[1])) ELSE st[2]

-----------------------------------------------------------------------------
(* UPSCScriptGenerator: the generation call and its responses *)

\* a file: absent, or present with its content
NoFile == [exists |-> FALSE, content |-> <<>>, run |-> "none"]
\* a file written by this run
File(c) == [exists |-> TRUE, content |-> c, run |-> "new"]
\* a file that was on disk before this run started
EarlierFile(c) == [exists |-> TRUE, content |-> c, run |-> "old"]
NoScript == [intro |-> "none", items |-> <<>>, outro |-> "none", text |-> <<>>]
NoText == [kind |-> "none", item |-> 0, attempt |-> 0, words |-> 0]
NoExit == -1

\* generate_upsc_script.py:134  for i in range(10)
MaxItems == 10
\* generate_upsc_script.py:93  if word_count < 80
MinWords == 80

\* word counts of the texts the model may return (len(text.split()))
WordCounts == {0, MinWords - 1, MinWords}

\* What one requests.post(...) can give back.
\*   raised: requests.post raises (timeout, connection error)
\*   status 500: any status_code != 200
\*   status 200 with body:
\*     "not_json"         response.json() raises
\*     "no_candidates"    'candidates' key absent
\*     "empty_candidates" 'candidates' is an empty list
\*     "no_content"       candidates[0] has no 'content'
\*     "no_parts"         candidates[0]['content'] has no 'parts'
\*     "empty_parts"      parts is an empty list, or parts[0] has no 'text'
\*     "text"             parts[0]['text'] is a string of `words` words
MalformedBodies == {"not_json", "no_candidates", "empty_candidates",
                    "no_content", "no_parts", "empty_parts"}

Responses ==
    {[raised |-> TRUE, status |-> 0, body |-> "none", words |-> 0],
     [raised |-> FALSE, status |-> 500, body |-> "none", words |-> 0]}
    \cup {[raised |-> FALSE, status |-> 200, body |-> b, words |-> 0] :
              b \in MalformedBodies}
    \cup {[raised |-> FALSE, status |-> 200, body |-> "text", words |-> w] :
              w \in WordCounts}

\* an item body: the fallback text for item k, or the text of attempt 1 or 2
FallbackItem(k) == [kind |-> "fallback", item |-> k, attempt |-> 0, words |-> 0]
GeneratedText(k, attempt, r) ==
    [kind |-> "generated", item |-> k, attempt |-> attempt, words |-> r.words]

\* create_fallback_item (lines 109-116): built from the article alone
create_fallback_item(article, item_number) == FallbackItem(article)

\* lines 70-93, the first request: what generate_single_news_item does with it
\*   "fallback": return create_fallback_item(...)
\*   "return":   return text
\*   "retry":    text is too short, sleep and post again
FirstOutcomeRetriesOnError(r) ==
    IF r.raised THEN "retry"
    ELSE IF r.status # 200 THEN "retry"
    ELSE IF r.body = "not_json" THEN "fallback"
    ELSE IF r.body \in {"no_candidates", "empty_candidates"} THEN "fallback"
    ELSE IF r.body \in {"no_content", "no_parts"} THEN "fallback"
    ELSE IF r.body = "empty_parts" THEN "fallback"
    ELSE IF r.words < MinWords THEN "retry"
    ELSE "return"

FirstOutcome(r) ==
    IF r.raised THEN "fallback"                                        \* 105
    ELSE IF r.status # 200 THEN "fallback"                                \* 73
    ELSE IF r.body = "not_json" THEN "fallback"                           \* 77, 105
    ELSE IF r.body \in {"no_candidates", "empty_candidates"} THEN "fallback" \* 79
    ELSE IF r.body \in {"no_content", "no_parts"} THEN "fallback"         \* 85
    ELSE IF r.body = "empty_parts" THEN "fallback"                        \* 89, 105
    ELSE IF r.words < MinWords THEN "retry"                               \* 93
    ELSE "return"                                                         \* 103

\* lines 97-103, the retry: "keep" returns the first (too short) text,
\* "replace" returns the retry's text unchecked, "fallback" is the except branch
RetryOutcome(r) ==
    IF r.raised THEN "fallback"                                        \* 105
    ELSE IF r.status # 200 THEN "keep"                                    \* 98
    ELSE IF r.body = "not_json" THEN "fallback"                           \* 99, 105
    ELSE IF r.body \in {"no_candidates", "empty_candidates"} THEN "keep"  \* 100
    ELSE IF r.body \in {"no_content", "no_parts", "empty_parts"}
         THEN "fallback"                                                  \* 101, 105
    ELSE "replace"                                                        \* 101

\* a request failed: exception, non-200 status or malformed body
CallFailed(r) == r.raised \/ r.status # 200 \/ r.body \in MalformedBodies

\* a handler that asks again whenever the text is too short
ItemOutcomeRetriesAgain(attempt, r) == FirstOutcome(r)

\* what generate_single_news_item does with the response of its attempt-th
\* request for an item
ItemOutcome(attempt, r) ==
    IF attempt = 1 THEN FirstOutcome(r) ELSE RetryOutcome(r)

\* The pieces of the script string.  The intro is the literal of line 128
\* with date_hindi (line 122) filled in, the outro the literal of lines
\* 150-152, the separator the "\n\n" of line 155; an item body is a piece
\* as it is.
Piece(kind) == [kind |-> kind, item |-> 0, attempt |-> 0, words |-> 0]
Intro == Piece("intro")
Outro == Piece("outro")
Separator == Piece("separator")

\* a join that puts each further item in front of the ones before
RECURSIVE JoinInFront(_, _)
JoinInFront(sep, items) ==
    IF items = <<>> THEN <<>>
    ELSE IF Len(items) = 1 THEN <<items[1]>>
    ELSE JoinInFront(sep, Tail(items)) \o <<sep, Head(items)>>

\* sep.join(items), line 155
RECURSIVE Join(_, _)
Join(sep, items) ==
    IF items = <<>> THEN <<>>
    ELSE IF Len(items) = 1 THEN <<items[1]>>
    ELSE <<Head(items), sep>> \o Join(sep, Tail(items))

\* the fixed intro and outro (lines 128, 150-152) and the join of line 155;
\* text is the returned string, piece by piece
AssembleScript(items) ==
    [intro |-> "intro", items |-> items, outro |-> "outro",
     text |-> <<Intro>> \o Join(Separator, items) \o <<Outro>>]

\* how the assembled script reads as characters once written to the script
\* file: the intro and outro literals carry a '!' each, an item body is plain
\* words (an empty generated text is no characters), "\n\n" is whitespace
IntroChars == <<"a", "!", " ", "a", " ">>
OutroChars == <<" ", "a", "!">>
ItemChars(body) ==
    IF body.kind = "generated" /\ body.words = 0 THEN <<>> ELSE <<"a">>

RECURSIVE JoinItems(_)
JoinItems(items) ==
    IF items = <<>> THEN <<>>
    ELSE IF Len(items) = 1 THEN ItemChars(items[1])
    ELSE ItemChars(Head(items)) \o <<" ", " ">> \o JoinItems(Tail(items))

ScriptChars(sc) == IntroChars \o JoinItems(sc.items) \o OutroChars

-----------------------------------------------------------------------------
(* The process: entry points, environment and files *)

Entries == {"run_upsc_daily", "generate_upsc_script", "create_upsc_video"}

Stages == <<"News", "Script", "Audio", "Visual", "Video">>
NoStage == "NoStage"
NoCombine == [ran |-> FALSE, files |-> <<>>]
NoResult == "NoResult"
None == "None"

\* bounds of the environment
MaxArticles == 3
MaxScriptLen == 5
PriorChunks == 4
\* stands for max_chars=4000 of create_upsc_video.py:319 at the scale of
\* the scripts of this model
ScaledMaxChars == 4

ScriptAlphabet == {"a", ".", " "}

RECURSIVE ScriptsOfLen(_)
ScriptsOfLen(n) ==
    IF n = 0 THEN {<<>>}
    ELSE {Append(t, c) : t \in ScriptsOfLen(n - 1), c \in ScriptAlphabet}

\* script files a user may have put in place before create_upsc_video.py
RawScripts == UNION {ScriptsOfLen(n) : n \in 0..MaxScriptLen}

\* the article list of a scrape that found n entries
ArticleList(n) == [k \in 1..n |-> k]

\* what an earlier run for the same date left on disk
OldScript == <<"a", ".">>
OldFile(prior) == IF prior THEN "old" ELSE "none"

\* no news collector is running on its own
NewsIdle ==
    /\ collector = "none"
    /\ src_i = 0
    /\ all_articles = <<>>
    /\ fetch_log = <<>>
    /\ news_out = <<>>
    /\ news_pc = "idle"

SplitIdle ==
    /\ text = <<>>
    /\ max_chars = 1
    /\ chunks = <<>>
    /\ split_pc = "idle"

GenLocalsInit ==
    /\ articles = <<>>
    /\ item_i = 0
    /\ news_items = <<>>
    /\ item_calls = <<>>
    /\ short_text = NoText
    /\ script = NoScript
    /\ only_failures = TRUE
    /\ sent_articles = <<>>

AudioLocalsInit ==
    /\ audio_chunks = <<>>
    /\ ci = 0
    /\ synth_ok = <<>>
    /\ chunk_files = <<>>
    /\ slept = <<>>
    /\ combine_in = NoCombine
    /\ result = NoResult

Init ==
    /\ SplitIdle
    /\ entry \in Entries
    /\ pc = "main"
    /\ exit_code = NoExit
    /\ gemini_key \in BOOLEAN
    /\ azure_creds \in BOOLEAN
    /\ \E prior \in BOOLEAN :
        /\ prior_run = prior
        /\ audio_file = OldFile(prior)
        /\ bg_file = OldFile(prior)
        /\ thumb_file = OldFile(prior)
        /\ video_file = OldFile(prior)
        /\ chunk_disk = [old |-> IF prior THEN 1..PriorChunks ELSE {},
                         new |-> {}]
        /\ IF entry = "generate_upsc_script"
           THEN news_file \in {NoFile} \cup
                            {EarlierFile(ArticleList(n)) : n \in 0..MaxArticles}
           ELSE news_file = IF prior THEN EarlierFile(ArticleList(1)) ELSE NoFile
        /\ IF entry = "create_upsc_video"
           THEN script_file \in {NoFile} \cup {EarlierFile(t) : t \in RawScripts}
           ELSE script_file = IF prior THEN EarlierFile(OldScript) ELSE NoFile
    /\ GenLocalsInit
    /\ AudioLocalsInit
    /\ started = <<>>
    /\ completed = <<>>
    /\ failed = NoStage
    /\ uploaded = "pending"
    /\ pexels = "none"
    /\ bg_kind = "none"
    /\ NewsIdle

\* no script is running: the chunker is exercised on its own
ProcIdle ==
    /\ entry = "none"
    /\ pc = "idle"
    /\ exit_code = NoExit
    /\ gemini_key = FALSE
    /\ azure_creds = FALSE
    /\ news_file = NoFile
    /\ script_file = NoFile
    /\ audio_file = "none"
    /\ bg_file = "none"
    /\ thumb_file = "none"
    /\ video_file = "none"
    /\ chunk_disk = [old |-> {}, new |-> {}]
    /\ prior_run = FALSE
    /\ uploaded = "pending"
    /\ pexels = "none"
    /\ bg_kind = "none"
    /\ GenLocalsInit
    /\ AudioLocalsInit
    /\ started = <<>>
    /\ completed = <<>>
    /\ failed = NoStage

\* a failure that is logged while the run goes on with the next stage
RaiseSwallowed(st) ==
    /\ failed' = st
    /\ pc' = CASE st = "News" -> "script_ctor"
              [] st = "Script" -> "video_ctor"
              [] st = "Audio" -> "background"
              [] st = "Visual" -> "create_video"
              [] OTHER -> "exit"
    /\ exit_code' = IF st = "Video" THEN 1 ELSE exit_code

\* an uncaught exception (or sys.exit(1) of run_upsc_daily.py:63-72) while
\* stage st is running
Raise(st) ==
    /\ failed' = st
    /\ pc' = "exit"
    /\ exit_code' = 1

\* the script returns from main() normally
ReturnFromMain ==
    /\ pc' = "exit"
    /\ exit_code' = 0

-----------------------------------------------------------------------------
(* run_upsc_daily.py, STEP 1: NewsScraper.get_daily_news and save_news *)

\* Each of the three feeds gives some entries (none when its fetch fails:
\* scrape_rss_feed returns []); save_news writes the news file or raises.
DailyScrapeNews ==
    /\ entry = "run_upsc_daily"
    /\ pc = "main"
    /\ \E hindu \in 0..MaxArticles, pib \in 0..MaxArticles,
          indian_express \in 0..MaxArticles, saved \in BOOLEAN :
        /\ hindu + pib + indian_express <= MaxArticles
        /\ started' = Append(started, "News")
        /\ IF saved
           THEN /\ news_file' = File(ArticleList(hindu + pib + indian_express))
                /\ completed' = Append(completed, "News")
                /\ pc' = "script_ctor"
                /\ UNCHANGED <<failed, exit_code>>
           ELSE /\ Raise("News")
                /\ UNCHANGED <<news_file, completed>>
    /\ UNCHANGED <<splitVars, newsVars, prior_run, uploaded, bgVars,
                   entry, gemini_key, azure_creds, script_file,
                   audio_file, bg_file, thumb_file, video_file, chunk_disk,
                   genVars, audioVars>>

-----------------------------------------------------------------------------
(* UPSCScriptGenerator: constructor, load_news, generate_hindi_script *)

\* lines 14-17 and 21-23, then the start of generate_hindi_script
StartGeneration ==
    /\ started' = Append(started, "Script")
    /\ IF gemini_key
       THEN /\ articles' = news_file.content
            /\ item_i' = 0
            /\ news_items' = <<>>
            /\ pc' = "gen_loop"
            /\ UNCHANGED <<failed, exit_code>>
       ELSE /\ Raise("Script")
            /\ UNCHANGED <<articles, item_i, news_items>>
    /\ UNCHANGED <<item_calls, short_text, script, only_failures,
                   sent_articles>>

\* run_upsc_daily.py:37-39
DailyScriptCtor ==
    /\ entry = "run_upsc_daily"
    /\ pc = "script_ctor"
    /\ StartGeneration
    /\ UNCHANGED <<splitVars, newsVars, prior_run, uploaded, bgVars,
                   entry, gemini_key, azure_creds, diskVars,
                   audioVars, completed>>

\* generate_upsc_script.py main(), lines 176-189
ScriptMain ==
    /\ entry = "generate_upsc_script"
    /\ pc = "main"
    /\ IF news_file = NoFile
       THEN /\ ReturnFromMain
            /\ UNCHANGED <<genVars, started, failed>>
       ELSE StartGeneration
    /\ UNCHANGED <<splitVars, newsVars, prior_run, uploaded, bgVars,
                   entry, gemini_key, azure_creds, diskVars,
                   audioVars, completed>>

\* a loop that runs as long as there are articles
RangeExhaustedNever(n) == FALSE

\* line 134: for i in range(10) has run through all its values
RangeExhausted(n) == n >= MaxItems

\* a loop that stops one article early
LoopDoneOffByOne(n, arts) == n >= MaxItems \/ n + 1 >= Len(arts)

\* lines 134-143: range(10) is exhausted, or no article is left (break)
LoopDone(n, arts) == RangeExhausted(n) \/ n >= Len(arts)

\* one requests.post of generate_single_news_item for article item_i + 1 and
\* what the code makes of the response: the first request of an item
\* (lines 71-93, reached from the loop body, lines 137-138) or the retry
\* (lines 95-101, after time.sleep(2)).  A settled item is appended to
\* news_items (line 139) and the loop moves on (time.sleep(3)).
GenRequestFrom(pool) ==
    /\ \/ pc = "gen_loop" /\ ~LoopDone(item_i, articles)
       \/ pc = "gen_retry"
    /\ \E r \in pool :
        LET article == articles[item_i + 1]
            item_number == item_i + 1
            attempt == IF pc = "gen_loop" THEN 1 ELSE Len(item_calls) + 1
            outcome == ItemOutcome(attempt, r)
            item == CASE outcome = "fallback" ->
                           create_fallback_item(article, item_number)
                      [] outcome = "return" -> GeneratedText(article, attempt, r)
                      [] outcome = "replace" -> GeneratedText(article, attempt, r)
                      [] outcome = "keep" -> short_text
                      [] OTHER -> NoText
        IN  /\ item_calls' = IF attempt = 1 THEN <<r>> ELSE Append(item_calls, r)
            /\ sent_articles' = Append(sent_articles, article)
            /\ only_failures' = (only_failures /\ CallFailed(r))
            /\ IF outcome = "retry"
               THEN /\ short_text' = GeneratedText(article, attempt, r)
                    /\ pc' = "gen_retry"
                    /\ UNCHANGED <<news_items, item_i>>
               ELSE /\ news_items' = Append(news_items, item)
                    /\ item_i' = item_i + 1
                    /\ short_text' = NoText
                    /\ pc' = "gen_loop"
    /\ UNCHANGED <<splitVars, newsVars, prior_run, uploaded, bgVars,
                   entry, exit_code, gemini_key, azure_creds,
                   diskVars, articles, script, audioVars, stageVars>>

GenRequest == GenRequestFrom(Responses)

\* the loop ends and lines 150-167 assemble and return the script
GenReturn ==
    /\ pc = "gen_loop"
    /\ LoopDone(item_i, articles)
    /\ script' = AssembleScript(news_items)
    /\ pc' = "save_script"
    /\ UNCHANGED <<splitVars, newsVars, prior_run, uploaded, bgVars,
                   entry, exit_code, gemini_key, azure_creds,
                   diskVars, articles, item_i, news_items, item_calls,
                   short_text, only_failures, sent_articles, audioVars,
                   stageVars>>

\* save_script (lines 169-174); the generator's locals are dead afterwards
SaveScript ==
    /\ pc = "save_script"
    /\ script_file' = File(ScriptChars(script))
    /\ completed' = Append(completed, "Script")
    /\ articles' = <<>>
    /\ item_i' = 0
    /\ news_items' = <<>>
    /\ item_calls' = <<>>
    /\ script' = NoScript
    /\ only_failures' = TRUE
    /\ sent_articles' = <<>>
    /\ IF entry = "run_upsc_daily"
       THEN pc' = "video_ctor" /\ UNCHANGED exit_code
       ELSE ReturnFromMain
    /\ UNCHANGED <<splitVars, newsVars, prior_run, uploaded, bgVars,
                   entry, gemini_key, azure_creds, news_file,
                   audio_file, bg_file, thumb_file, video_file, chunk_disk,
                   short_text, audioVars, started, failed>>

-----------------------------------------------------------------------------
(* UPSCVideoCreator: constructor, create_complete_video, generate_audio *)

\* create_upsc_video.py main(), lines 405-411: the script file must exist
VideoMain ==
    /\ entry = "create_upsc_video"
    /\ pc = "main"
    /\ IF script_file = NoFile
       THEN ReturnFromMain
       ELSE pc' = "video_ctor" /\ UNCHANGED exit_code
    /\ UNCHANGED <<splitVars, newsVars, prior_run, uploaded, bgVars,
                   entry, gemini_key, azure_creds, diskVars,
                   genVars, audioVars, stageVars>>

\* __init__ (lines 18-27), then create_complete_video up to the call of
\* generate_audio (lines 375-386) and generate_audio up to its loop
\* (lines 317-322)
VideoCtor ==
    /\ pc = "video_ctor"
    /\ started' = Append(started, "Audio")
    /\ IF azure_creds
       THEN /\ audio_chunks' = split_text_into_chunks(script_file.content, ScaledMaxChars)
            /\ ci' = 0
            /\ chunk_files' = <<>>
            /\ pc' = "synth_loop"
            /\ UNCHANGED <<failed, exit_code>>
       ELSE /\ Raise("Audio")
            /\ UNCHANGED <<audio_chunks, ci, chunk_files>>
    /\ UNCHANGED <<splitVars, newsVars, prior_run, uploaded, bgVars,
                   entry, gemini_key, azure_creds, diskVars,
                   genVars, synth_ok, slept, combine_in, result, completed>>

\* a loop body that keeps the file name of a chunk whose synthesis failed
SynthStepKeepsFailed(files, n, ok) == Append(files, n)

\* lines 328-332: chunk n joins chunk_files only when its synthesis succeeded
SynthStep(files, n, ok) == IF ok THEN Append(files, n) ELSE files

\* lines 328-334: time.sleep(2) is the last statement of the success branch;
\* the failure branch ends in `continue`
SleepsAfter(ok) == ok

\* chunk file n has been (re)written by this run
ChunkWritten(disk, n) == [old |-> disk.old \ {n}, new |-> disk.new \cup {n}]

\* one pass of the loop of lines 324-334: generate_audio_chunk succeeds
\* (the chunk file is written, then time.sleep(2)) or fails (continue).  A
\* failed call may or may not have opened its output file (lines 291-295).
SynthChunk ==
    /\ pc = "synth_loop"
    /\ ci < Len(audio_chunks)
    /\ \E ok \in BOOLEAN, opened \in BOOLEAN :
        /\ ok => opened
        /\ synth_ok' = Append(synth_ok, ok)
        /\ chunk_files' = SynthStep(chunk_files, ci + 1, ok)
        /\ slept' = Append(slept, SleepsAfter(ok))
        /\ chunk_disk' = IF opened
                         THEN ChunkWritten(chunk_disk, ci + 1)
                         ELSE chunk_disk
    /\ ci' = ci + 1
    /\ UNCHANGED <<splitVars, newsVars, prior_run, uploaded, bgVars,
                   procVars, news_file, script_file, audio_file,
                   bg_file, thumb_file, video_file, genVars, audio_chunks,
                   combine_in, result, stageVars>>

\* an output step that leaves a file of an earlier run in place
OverwriteKeepsExisting(current) == IF current = "none" THEN "new" ELSE current

\* the output file after a step that writes it to the end: open(path, 'w'),
\* img.save, cp, ffmpeg -y (create_upsc_video.py:186, 228, 261, 342, 349, 360)
Overwrite(current) == "new"

\* the output file after cp / ffmpeg exited with an error: untouched, or
\* the incomplete file the command left behind
FailedOutput(current) == {current, "partial"}

\* a generate_audio that goes on to the combine step with an empty list
NothingToCombineNever(files) == FALSE

\* line 336: if not chunk_files
NothingToCombine(files) == files = <<>>

\* lines 336-355 after the loop.  With no chunk file generate_audio returns
\* False and create_complete_video returns None (line 387); run_upsc_daily
\* then fails on result['video'] (line 55), create_upsc_video.py's main just
\* returns.  Otherwise cp (one file) or ffmpeg concat (several) runs with
\* check=True.
AudioCombine ==
    /\ pc = "synth_loop"
    /\ ci = Len(audio_chunks)
    /\ IF NothingToCombine(chunk_files)
       THEN /\ result' = None
            /\ failed' = "Audio"
            /\ pc' = "exit"
            /\ exit_code' = IF entry = "run_upsc_daily" THEN 1 ELSE 0
            /\ UNCHANGED <<combine_in, audio_file, completed>>
       ELSE \E ok \in BOOLEAN :
            /\ combine_in' = [ran |-> TRUE, files |-> chunk_files]
            /\ IF ok
               THEN /\ audio_file' = Overwrite(audio_file)
                    /\ completed' = Append(completed, "Audio")
                    /\ pc' = "background"
                    /\ UNCHANGED <<failed, exit_code>>
               ELSE /\ Raise("Audio")
                    /\ audio_file' \in FailedOutput(audio_file)
                    /\ UNCHANGED completed
            /\ UNCHANGED result
    /\ UNCHANGED <<splitVars, newsVars, prior_run, uploaded, bgVars,
                   entry, gemini_key, azure_creds, news_file,
                   script_file, bg_file, thumb_file, video_file, chunk_disk,
                   genVars, audio_chunks, ci, synth_ok, chunk_files, slept,
                   started>>

\* What the request to the stock-photo service comes to (lines 42-96):
\*   "no_key"           PEXELS_API_KEY is not set (line 42)
\*   "bad_status"       the search answers with a status other than 200
\*   "no_photos"        the answer has no photo
\*   "download_error"   a request or response.json() raises (timeout, ...)
\*   "processing_error" process_background_image raises on the download
\*   "photo"            the downloaded photo was processed and saved
PexelsOutcomes == {"no_key", "bad_status", "no_photos", "download_error",
                   "processing_error", "photo"}

\* a background step that lets an exception of the download or of the image
\* processing through to its caller
get_news_background_from_pexels_reraises(o) ==
    IF o = "photo" THEN "photo"
    ELSE IF o \in {"download_error", "processing_error"} THEN "raised"
    ELSE "solid"

\* lines 39-100: which background is written to output_path.  Every way out
\* but the last line of the try block is `return
\* self.create_solid_background(output_path)` (lines 44, 74, 80, 100).
get_news_background_from_pexels(o) ==
    IF o = "photo" THEN "photo" ELSE "solid"

\* lines 389-391: get_news_background_from_pexels leaves a background (stock
\* photo or the solid fallback of lines 190-229); create_thumbnail writes
\* the thumbnail or raises
CreateVisuals ==
    /\ pc = "background"
    /\ started' = Append(started, "Visual")
    /\ \E o \in PexelsOutcomes, drawn \in BOOLEAN :
        LET background == get_news_background_from_pexels(o)
        IN  /\ pexels' = o
            /\ IF background = "raised"
               THEN /\ Raise("Visual")
                    /\ UNCHANGED <<bg_file, bg_kind, thumb_file, completed>>
               ELSE /\ bg_file' = Overwrite(bg_file)
                    /\ bg_kind' = background
                    /\ IF drawn
                       THEN /\ thumb_file' = Overwrite(thumb_file)
                            /\ completed' = Append(completed, "Visual")
                            /\ pc' = "create_video"
                            /\ UNCHANGED <<failed, exit_code>>
                       ELSE /\ Raise("Visual")
                            /\ UNCHANGED <<thumb_file, completed>>
    /\ UNCHANGED <<splitVars, newsVars, prior_run, uploaded, entry,
                   gemini_key, azure_creds, news_file, script_file,
                   audio_file, video_file, chunk_disk, genVars, audioVars>>

\* create_video (lines 357-368) and the return of lines 399-403; both
\* callers then return from main
CreateVideo ==
    /\ pc = "create_video"
    /\ started' = Append(started, "Video")
    /\ \E encoded \in BOOLEAN :
        IF encoded
        THEN /\ video_file' = Overwrite(video_file)
             /\ completed' = Append(completed, "Video")
             /\ result' = "result"
             /\ ReturnFromMain
             /\ UNCHANGED failed
        ELSE /\ Raise("Video")
             /\ video_file' \in FailedOutput(video_file)
             /\ UNCHANGED <<completed, result>>
    /\ UNCHANGED <<splitVars, newsVars, prior_run, uploaded, bgVars,
                   entry, gemini_key, azure_creds, news_file,
                   script_file, audio_file, bg_file, thumb_file, chunk_disk,
                   genVars, audio_chunks, ci, synth_ok, chunk_files, slept,
                   combine_in>>

-----------------------------------------------------------------------------
(* upload_youtube_auto.py, started once the run for the date has ended *)

\* main(), lines 87-114: the only test is os.path.exists(video_path); then
\* YouTubeUploader() (raises without valid credentials, lines 17-35) and
\* upload_video (lines 39-85), which publishes the file found at that path
UploadMain ==
    /\ pc = "exit"
    /\ uploaded = "pending"
    /\ IF video_file = "none"
       THEN uploaded' = "nothing"
       ELSE \E sent \in BOOLEAN :
                uploaded' = IF sent THEN video_file ELSE "nothing"
    /\ UNCHANGED <<splitVars, newsVars, procVars, diskVars, genVars, audioVars,
                   stageVars, prior_run, bgVars>>

Next ==
    \/ DailyScrapeNews
    \/ DailyScriptCtor
    \/ ScriptMain
    \/ GenRequest
    \/ GenReturn
    \/ SaveScript
    \/ VideoMain
    \/ VideoCtor
    \/ SynthChunk
    \/ AudioCombine
    \/ CreateVisuals
    \/ CreateVideo
    \/ UploadMain

Spec == Init /\ [][Next]_vars

-----------------------------------------------------------------------------
(* generate_upsc_script.py on a long news file *)

\* the longest news file handed to generate_upsc_script.py
MaxLongList == 11

\* the model answers in time with a text of full length, or not at all
PlainResponses ==
    {[raised |-> TRUE, status |-> 0, body |-> "none", words |-> 0],
     [raised |-> FALSE, status |-> 200, body |-> "text", words |-> MinWords]}

InitScript ==
    /\ SplitIdle
    /\ NewsIdle
    /\ entry = "generate_upsc_script"
    /\ pc = "main"
    /\ exit_code = NoExit
    /\ gemini_key \in BOOLEAN
    /\ azure_creds = FALSE
    /\ prior_run = FALSE
    /\ news_file \in {EarlierFile(ArticleList(n)) : n \in 0..MaxLongList}
    /\ script_file = NoFile
    /\ audio_file = "none"
    /\ bg_file = "none"
    /\ thumb_file = "none"
    /\ video_file = "none"
    /\ chunk_disk = [old |-> {}, new |-> {}]
    /\ GenLocalsInit
    /\ AudioLocalsInit
    /\ started = <<>>
    /\ completed = <<>>
    /\ failed = NoStage
    /\ uploaded = "pending"
    /\ pexels = "none"
    /\ bg_kind = "none"

GenRequestPlain == GenRequestFrom(PlainResponses)

NextScript ==
    \/ ScriptMain
    \/ GenRequestPlain
    \/ GenReturn
    \/ SaveScript

SpecScript == InitScript /\ [][NextScript]_vars

-----------------------------------------------------------------------------
(* Specification of the chunker on its own: every text, every budget *)

InitSplit ==
    /\ text \in Texts
    /\ max_chars \in 1..MaxBudget
    /\ chunks = <<>>
    /\ split_pc = "ready"
    /\ ProcIdle
    /\ NewsIdle

CallSplit ==
    /\ split_pc = "ready"
    /\ chunks' = split_text_into_chunks(text, max_chars)
    /\ split_pc' = "done"
    /\ UNCHANGED <<text, max_chars, procVars, diskVars, genVars, audioVars,
                   stageVars, prior_run, uploaded, bgVars, newsVars>>

NextSplit == CallSplit

SpecSplit == InitSplit /\ [][NextSplit]_vars

-----------------------------------------------------------------------------
(* fetch_upsc_news.py (UPSCNewsCollector) and scrape_news.py (NewsScraper) *)

\* Titles and summaries are sequences of one-character strings.  An entry is
\* [title, summary] (link and published are carried along untouched and left
\* out), an article is what the collector stores for it.

\* feed.entries[:20] (fetch_upsc_news.py:107) and feed.entries[:max_articles]
\* (scrape_news.py:23), scaled: the most entries one feed delivers
FeedLimit == 2
\* the 50 of title.lower()[:50] (fetch_upsc_news.py:138), scaled
ScaledKeyLen == 2
\* the 500 of summary[:500] (fetch_upsc_news.py:121, scrape_news.py:26), scaled
ScaledSummaryCap == 3
\* the 15 of unique_articles[:15] (fetch_upsc_news.py:153), scaled
ScaledTopN == 2
\* longest title and longest summary handed to is_upsc_relevant on its own
MaxFieldLen == 2

\* two of the thirteen feeds of self.feeds, in the order of the dict
Feeds == <<"hindu_national", "mea_india">>
priority_sources == {"pib", "drishti_ias", "vision_ias", "mea_india"}
\* the three feeds of NewsScraper.get_daily_news, in the order they are read
ScraperSources == <<"hindu", "pib", "indian_express">>

\* one keyword of self.upsc_keywords ('india') and one of skip_keywords
\* ('ipl'), shortened to two letters each
upsc_keywords == {<<"i", "n">>}
skip_keywords == {<<"i", "p">>}

\* str.lower() on the letters used here
LowerChar(c) == CASE c = "I" -> "i" [] c = "N" -> "n" [] c = "P" -> "p"
                  [] OTHER -> c
Lower(t) == [k \in 1..Len(t) |-> LowerChar(t[k])]

\* t[:n]
Take(t, n) == SubSeq(t, 1, IF n < Len(t) THEN n ELSE Len(t))

\* Python's `word in text`
Contains(t, word) ==
    \E k \in 0..(Len(t) - Len(word)) : SubSeq(t, k + 1, k + Len(word)) = word

\* a filter in which a relevance keyword outweighs an exclusion keyword
is_upsc_relevant_keyword_first(title, summary) ==
    LET t == Lower(title \o <<" ">> \o summary)
    IN  \/ \E keyword \in upsc_keywords : Contains(t, keyword)
        \/ ~ \E word \in skip_keywords : Contains(t, word)

\* lines 79-91
is_upsc_relevant(title, summary) ==
    LET t == Lower(title \o <<" ">> \o summary)
    IN  IF \E word \in skip_keywords : Contains(t, word)
        THEN FALSE
        ELSE \E keyword \in upsc_keywords : Contains(t, keyword)

\* the dict appended at lines 119-125
Article(e, source_name) ==
    [title |-> e.title, summary |-> Take(e.summary, ScaledSummaryCap),
     source |-> source_name]

\* the loop of lines 107-126 over the entries that were processed
RECURSIVE RelevantArticles(_, _)
RelevantArticles(entries, source_name) ==
    IF entries = <<>> THEN <<>>
    ELSE LET e == Head(entries)
             rest == RelevantArticles(Tail(entries), source_name)
         IN  IF is_upsc_relevant(e.title, e.summary)
             THEN <<Article(e, source_name)>> \o rest
             ELSE rest

\* a collector that starts over with an empty list when a feed fails
CollectFromDropsOnError(arts, source_name, o) ==
    IF o.raised = "parse" THEN <<>>
    ELSE arts \o RelevantArticles(o.entries, source_name)

\* lines 100-131, one source: feedparser.parse raised (nothing appended), or
\* the entries were processed, up to an exception in the loop body if any;
\* the except clause prints and the loop goes on with the next source
CollectFrom(arts, source_name, o) ==
    IF o.raised = "parse" THEN arts
    ELSE arts \o RelevantArticles(o.entries, source_name)

\* line 138
title_key(article) == Take(Lower(article.title), ScaledKeyLen)

\* lines 134-141: the first article of every title key, in order
RECURSIVE Dedupe(_, _)
Dedupe(arts, seen_titles) ==
    IF arts = <<>> THEN <<>>
    ELSE LET article == Head(arts)
         IN  IF title_key(article) \in seen_titles
             THEN Dedupe(Tail(arts), seen_titles)
             ELSE <<article>> \o
                  Dedupe(Tail(arts), seen_titles \cup {title_key(article)})

\* a sort key that ignores the source
SortKeyBySummaryOnly(x) == <<0, 0 - Len(x.summary)>>

\* the key of lines 148-151
SortKey(x) ==
    <<IF x.source \in priority_sources THEN 0 ELSE 1, 0 - Len(x.summary)>>

\* tuple comparison k1 <= k2
KeyLE(k1, k2) == k1[1] < k2[1] \/ (k1[1] = k2[1] /\ k1[2] <= k2[2])

\* x put behind every element whose key is not larger: a stable sort step
RECURSIVE InsertStable(_, _)
InsertStable(sorted, x) ==
    IF sorted = <<>> THEN <<x>>
    ELSE IF KeyLE(SortKey(Head(sorted)), SortKey(x))
         THEN <<Head(sorted)>> \o InsertStable(Tail(sorted), x)
         ELSE <<x>> \o sorted

\* list.sort(key=...) of line 148 (stable)
RECURSIVE SortArticles(_)
SortArticles(arts) ==
    IF arts = <<>> THEN <<>>
    ELSE InsertStable(SortArticles(SubSeq(arts, 1, Len(arts) - 1)),
                      arts[Len(arts)])

\* the entries the feeds of this model deliver
EntryPool ==
    { [title |-> <<"I", "n", "a">>, summary |-> <<"x", "x">>],
      [title |-> <<"i", "n", "b">>, summary |-> <<"x", "x", "x", "x">>],
      [title |-> <<"x", "y">>, summary |-> <<"i", "n">>],
      [title |-> <<"g", "i", "n">>, summary |-> <<"x">>],
      [title |-> <<"i", "n">>, summary |-> <<"I", "P">>],
      [title |-> <<"x", "z">>, summary |-> <<>>] }

\* the entries read by NewsScraper, which never looks into them
ScraperPool ==
    { [title |-> <<"I", "n", "a">>, summary |-> <<"x", "x">>],
      [title |-> <<"i", "n", "b">>, summary |-> <<"x", "x", "x", "x">>] }

RECURSIVE ListsOfLen(_, _)
ListsOfLen(pool, n) ==
    IF n = 0 THEN {<<>>}
    ELSE {Append(l, e) : l \in ListsOfLen(pool, n - 1), e \in pool}

\* what fetching and processing one feed can come to: all entries processed,
\* feedparser.parse raising, or an exception after some entries
FeedOutcomes(pool) ==
    {[raised |-> "no", entries |-> l] :
        l \in UNION {ListsOfLen(pool, n) : n \in 0..FeedLimit}}
    \cup {[raised |-> "parse", entries |-> <<>>]}
    \cup {[raised |-> "entry", entries |-> l] :
        l \in UNION {ListsOfLen(pool, n) : n \in 0..(FeedLimit - 1)}}

\* the dict appended at scrape_news.py:24-29
ScrapedArticle(e) ==
    [title |-> e.title, summary |-> Take(e.summary, ScaledSummaryCap)]

\* scrape_rss_feed (scrape_news.py:17-34): every entry, or [] on any exception
scrape_rss_feed(o) ==
    IF o.raised = "no"
    THEN [k \in 1..Len(o.entries) |-> ScrapedArticle(o.entries[k])]
    ELSE <<>>

InitNews ==
    /\ SplitIdle
    /\ ProcIdle
    /\ collector \in {"UPSCNewsCollector", "NewsScraper"}
    /\ src_i = 0
    /\ all_articles = <<>>
    /\ fetch_log = <<>>
    /\ news_out = <<>>
    /\ news_pc = "fetch"

\* fetch_all_news, one pass of the loop over self.feeds (lines 100-131)
FetchSource ==
    /\ collector = "UPSCNewsCollector"
    /\ news_pc = "fetch"
    /\ src_i < Len(Feeds)
    /\ \E o \in FeedOutcomes(EntryPool) :
        /\ all_articles' = CollectFrom(all_articles, Feeds[src_i + 1], o)
        /\ fetch_log' = Append(fetch_log, o)
    /\ src_i' = src_i + 1
    /\ UNCHANGED <<splitVars, procVars, diskVars, genVars, audioVars,
                   stageVars, prior_run, uploaded, bgVars, collector, news_out,
                   news_pc>>

\* fetch_all_news after the loop: dedupe, sort, top of the list
\* (lines 133-153)
ReturnNews ==
    /\ collector = "UPSCNewsCollector"
    /\ news_pc = "fetch"
    /\ src_i = Len(Feeds)
    /\ news_out' = Take(SortArticles(Dedupe(all_articles, {})), ScaledTopN)
    /\ news_pc' = "returned"
    /\ UNCHANGED <<splitVars, procVars, diskVars, genVars, audioVars,
                   stageVars, prior_run, uploaded, bgVars, collector, src_i,
                   all_articles, fetch_log>>

\* fetch_upsc_news.py main(), lines 181-190: the list is saved unless empty
NewsMain ==
    /\ collector = "UPSCNewsCollector"
    /\ news_pc = "returned"
    /\ news_file' = IF news_out # <<>> THEN File(news_out) ELSE news_file
    /\ news_pc' = "done"
    /\ UNCHANGED <<splitVars, procVars, script_file, audio_file, bg_file,
                   thumb_file, video_file, chunk_disk, genVars, audioVars,
                   stageVars, prior_run, uploaded, bgVars, collector, src_i,
                   all_articles, fetch_log, news_out>>

\* get_daily_news, one of its three scrape_rss_feed / extend pairs
\* (scrape_news.py:41-57)
ScrapeFeed ==
    /\ collector = "NewsScraper"
    /\ news_pc = "fetch"
    /\ src_i < Len(ScraperSources)
    /\ \E o \in FeedOutcomes(ScraperPool) :
        /\ all_articles' = all_articles \o scrape_rss_feed(o)
        /\ fetch_log' = Append(fetch_log, o)
    /\ src_i' = src_i + 1
    /\ UNCHANGED <<splitVars, procVars, diskVars, genVars, audioVars,
                   stageVars, prior_run, uploaded, bgVars, collector, news_out,
                   news_pc>>

\* get_daily_news returns all_news as it is (scrape_news.py:59-60); this is
\* the list run_upsc_daily.py:27-30 saves and hands to the script generator
ScraperReturn ==
    /\ collector = "NewsScraper"
    /\ news_pc = "fetch"
    /\ src_i = Len(ScraperSources)
    /\ news_out' = all_articles
    /\ news_pc' = "returned"
    /\ UNCHANGED <<splitVars, procVars, diskVars, genVars, audioVars,
                   stageVars, prior_run, uploaded, bgVars, collector, src_i,
                   all_articles, fetch_log>>

\* scrape_news.py main(), lines 79-90: the list is always saved
ScraperMain ==
    /\ collector = "NewsScraper"
    /\ news_pc = "returned"
    /\ news_file' = File(news_out)
    /\ news_pc' = "done"
    /\ UNCHANGED <<splitVars, procVars, script_file, audio_file, bg_file,
                   thumb_file, video_file, chunk_disk, genVars, audioVars,
                   stageVars, prior_run, uploaded, bgVars, collector, src_i,
                   all_articles, fetch_log, news_out>>

NextNews ==
    \/ FetchSource
    \/ ReturnNews
    \/ NewsMain
    \/ ScrapeFeed
    \/ ScraperReturn
    \/ ScraperMain

SpecNews == InitNews /\ [][NextNews]_vars

-----------------------------------------------------------------------------
(* is_upsc_relevant on its own: every short title, every short summary *)

FieldAlphabet == {"i", "n", "p", "I"}

RECURSIVE FieldsOfLen(_)
FieldsOfLen(n) ==
    IF n = 0 THEN {<<>>}
    ELSE {Append(t, c) : t \in FieldsOfLen(n - 1), c \in FieldAlphabet}

Fields == UNION {FieldsOfLen(n) : n \in 0..MaxFieldLen}

\* a feed whose only entry has the drawn title and summary is about to be
\* processed
InitRelevance ==
    /\ SplitIdle
    /\ ProcIdle
    /\ collector = "UPSCNewsCollector"
    /\ src_i = 0
    /\ all_articles = <<>>
    /\ \E title \in Fields, summary \in Fields :
        fetch_log = <<[raised |-> "no",
                       entries |-> <<[title |-> title, summary |-> summary]>>]>>
    /\ news_out = <<>>
    /\ news_pc = "entry"

\* the loop body of lines 108-126 on that entry
ClassifyEntry ==
    /\ news_pc = "entry"
    /\ all_articles' = CollectFrom(all_articles, Feeds[1], fetch_log[1])
    /\ news_pc' = "classified"
    /\ UNCHANGED <<splitVars, procVars, diskVars, genVars, audioVars,
                   stageVars, prior_run, uploaded, bgVars, collector, src_i,
                   fetch_log, news_out>>

NextRelevance == ClassifyEntry

SpecRelevance == InitRelevance /\ [][NextRelevance]_vars

-----------------------------------------------------------------------------
(* Properties of the chunker *)

\* the non-empty trimmed sentences of a text, '!' and '?' read as '.'
Sentences(t) ==
    LET stripped == [i \in 1..Len(RawSentences(t)) |-> Strip(RawSentences(t)[i])]
    IN  SelectSeq(stripped, LAMBDA s : s # <<>>)

RECURSIVE SentencesOfChunks(_)
SentencesOfChunks(cs) ==
    IF cs = <<>> THEN <<>>
    ELSE Sentences(Head(cs)) \o SentencesOfChunks(Tail(cs))

\* C1: every returned chunk has length <= maxChars, or consists of exactly
\* one sentence whose own length exceeds maxChars.
C1_ChunkWithinBudgetOrOversizedSentence ==
    split_pc = "done" =>
        \A k \in 1..Len(chunks) :
            \/ Len(chunks[k]) <= max_chars
            \/ /\ Len(Sentences(chunks[k])) = 1
               /\ Len(Sentences(chunks[k])[1]) > max_chars

\* C2: reading the sentences of the chunks in order gives exactly the
\* non-empty trimmed sentences of the input, in order: none lost,
\* duplicated, reordered or split across two chunks.
C2_ChunksReproduceSentences ==
    split_pc = "done" => SentencesOfChunks(chunks) = Sentences(text)

\* C2 witness: a split that flushed a chunk holding two sentences and then
\* started another chunk
C2_Witness ==
    /\ split_pc = "done"
    /\ Len(chunks) >= 2
    /\ Len(Sentences(chunks[1])) = 2
    /\ Len(Sentences(text)) = 3

-----------------------------------------------------------------------------
(* Properties of generate_audio and create_complete_video *)

\* the chunk numbers whose synthesis succeeded, in chunk order
Succeeded(oks) == SelectSeq([k \in 1..Len(oks) |-> k], LAMBDA k : oks[k])

AllSynthesisFailed == \A k \in 1..Len(synth_ok) : ~synth_ok[k]

NothingNewFromVideoStage ==
    /\ audio_file # "new"
    /\ bg_file # "new"
    /\ thumb_file # "new"
    /\ video_file # "new"

\* C3: the files handed to the copy/concat step are exactly the chunks whose
\* synthesis succeeded in this run, in chunk order; a failed chunk leaves no
\* entry.
C3_ConcatListIsSucceededChunksInOrder ==
    /\ chunk_files = Succeeded(synth_ok)
    /\ combine_in.ran =>
          /\ Len(synth_ok) = Len(audio_chunks)
          /\ combine_in.files = Succeeded(synth_ok)

\* C3 witness: three chunks, the second failed, chunks 1 and 3 were combined
C3_Witness ==
    /\ combine_in.ran
    /\ synth_ok = <<TRUE, FALSE, TRUE>>
    /\ combine_in.files = <<1, 3>>
    /\ audio_file = "new"

\* C4: when no chunk was synthesized (all failed, or there was none),
\* generate_audio reports failure, nothing is copied or concatenated, no
\* narration audio is written and no background, thumbnail or video is made.
C4_NoChunkNoAudio ==
    AllSynthesisFailed =>
        /\ ~combine_in.ran
        /\ NothingNewFromVideoStage
        /\ result # "result"
        /\ (azure_creds /\ pc = "exit" /\ started # <<>>
              /\ started[Len(started)] = "Audio")
           => (result = None /\ failed = "Audio")

\* C4 witness: two chunks were tried, both failed, and the run has ended
C4_Witness ==
    /\ pc = "exit"
    /\ Len(synth_ok) = 2
    /\ AllSynthesisFailed
    /\ result = None
    /\ audio_file = "old"

-----------------------------------------------------------------------------
(* Properties of generate_single_news_item and generate_hindi_script *)

\* the current item has been settled and appended
ItemSettled == pc \in {"gen_loop", "save_script"} /\ item_calls # <<>>

LastItem == news_items[Len(news_items)]
LastCall == item_calls[Len(item_calls)]

\* a response that carries a text of at least MinWords words
Usable(r) == ~CallFailed(r) /\ r.body = "text" /\ r.words >= MinWords

\* non-success status, or timeout/exception of the request itself
TransportFailed(r) == r.raised \/ r.status # 200

\* C5: the item body is the fallback whenever the response is missing,
\* malformed or shorter than MinWords, also when the retry fails or is too
\* short again; a generated text below MinWords is never an item body.
C5_ShortOrFailedGivesFallback ==
    ItemSettled =>
        /\ ~Usable(LastCall) => LastItem.kind = "fallback"
        /\ LastItem.kind = "generated" => LastItem.words >= MinWords

\* C6: if every generation call failed, generate_hindi_script raises nothing
\* and returns intro, one fallback body per attempted article, and outro.
C6_AllCallsFailGivesFallbackScript ==
    /\ pc \in {"gen_loop", "gen_retry", "save_script"} => failed = NoStage
    /\ (pc = "save_script" /\ only_failures) =>
          /\ script.intro = "intro"
          /\ script.outro = "outro"
          /\ Len(script.items) = Len(articles)
          /\ \A k \in 1..Len(articles) :
                script.items[k] = create_fallback_item(articles[k], k)

\* C6 witness: a script returned for MaxArticles articles after nothing but
\* failed calls
C6_Witness ==
    /\ pc = "save_script"
    /\ only_failures
    /\ Len(articles) = MaxArticles
    /\ Len(script.items) = MaxArticles

\* C7: for n < 10 articles the script has exactly n item bodies, whatever the
\* generation calls returned.
C7_ExactlyOneBodyPerArticle ==
    (pc = "save_script" /\ Len(articles) < MaxItems) =>
        /\ Len(script.items) = Len(articles)
        /\ Len(news_items) = Len(articles)

\* C7 witness: a script for two or more articles that mixes a fallback body
\* with a generated text below MinWords
C7_Witness ==
    /\ pc = "save_script"
    /\ Len(articles) >= 2
    /\ Len(script.items) = Len(articles)
    /\ \E k \in 1..Len(script.items) : script.items[k].kind = "fallback"
    /\ \E k \in 1..Len(script.items) :
          script.items[k].kind = "generated" /\ script.items[k].words < MinWords

-----------------------------------------------------------------------------
(* Properties of the pipeline *)

IsPrefix(p, q) == Len(p) <= Len(q) /\ \A k \in 1..Len(p) : p[k] = q[k]

\* the stages the started script is there to run
StagesOf(e) ==
    CASE e = "run_upsc_daily" -> Stages
      [] e = "generate_upsc_script" -> <<"Script">>
      [] e = "create_upsc_video" -> <<"Audio", "Visual", "Video">>
      [] OTHER -> <<>>

Succeeded_Run == completed = StagesOf(entry)

\* C9: the daily pipeline starts its stages in the order News, Script, Audio,
\* Visual, Video, each only after the one before completed successfully;
\* after a fatal failure no later stage runs and none is run again.
C9_StagesStrictlySequential ==
    entry = "run_upsc_daily" =>
        /\ IsPrefix(started, Stages)
        /\ IsPrefix(completed, started)
        /\ Len(started) <= Len(completed) + 1
        /\ failed # NoStage =>
              /\ pc = "exit"
              /\ started # <<>>
              /\ started[Len(started)] = failed
              /\ Len(completed) = Len(started) - 1

\* C9 witness: the daily run got through News, Script and Audio and failed in
\* Visual, so Video never started
C9_Witness ==
    /\ entry = "run_upsc_daily"
    /\ started = <<"News", "Script", "Audio", "Visual">>
    /\ completed = <<"News", "Script", "Audio">>
    /\ failed = "Visual"
    /\ pc = "exit"

\* C10: the exit status is 0 exactly when every stage of the started script
\* completed, and non-zero on every fatal failure (no audio, encoder
\* failure, missing news or script file).
C10_ExitZeroIffSucceeded ==
    exit_code # NoExit => (exit_code = 0 <=> Succeeded_Run)

\* C11: with a required credential missing (GEMINI_API_KEY, AZURE_SPEECH_KEY
\* or AZURE_SPEECH_REGION) the daily run fails before any stage has run: no
\* news is scraped or saved and no script is generated.
C11_MissingCredentialFailsBeforeAnyStage ==
    (entry = "run_upsc_daily" /\ (~gemini_key \/ ~azure_creds)) =>
        /\ completed = <<>>
        /\ \A k \in 1..Len(started) : started[k] \notin {"News", "Script"}

Ran(st) == \E k \in 1..Len(started) : started[k] = st
Done(st) == \E k \in 1..Len(completed) : completed[k] = st

\* C15: when the daily run's news stage collected no article at all, the run
\* does not fail and produces no script, no audio and no video from the
\* empty list.
C15_EmptyNewsPublishesNothing ==
    (entry = "run_upsc_daily" /\ news_file = File(<<>>)) =>
        /\ failed = NoStage
        /\ ~Ran("Script")
        /\ script_file.run # "new"
        /\ audio_file # "new"
        /\ video_file # "new"

\* C17: every synthesis call of generate_audio that is followed by another
\* one is followed by the fixed delay first, whether it succeeded or failed.
C17_DelayBetweenSynthesisCalls ==
    \A k \in 1..(Len(synth_ok) - 1) : slept[k]

\* C18: after a run that failed at a fatal stage, the upload step for the
\* same date publishes no video, not even one an earlier run left on disk.
C18_FailedRunPublishesNothing ==
    failed # NoStage => uploaded \in {"pending", "nothing"}

\* the six date-keyed artifacts all exist and were written by this run
AllArtifactsFresh ==
    /\ news_file.exists /\ news_file.run = "new"
    /\ script_file.exists /\ script_file.run = "new"
    /\ audio_file = "new"
    /\ bg_file = "new"
    /\ thumb_file = "new"
    /\ video_file = "new"

\* C19: after a successful daily run for a date an earlier run already
\* covered, the six date-keyed artifacts (news, script, audio, background,
\* thumbnail, video) are the same six paths and each holds what this run
\* wrote; nothing of the earlier run is left in them.
C19_RerunReplacesEveryArtifact ==
    (entry = "run_upsc_daily" /\ prior_run /\ Succeeded_Run) =>
        AllArtifactsFresh

\* C19 witness: a daily run over the files of an earlier run completed all
\* five stages
C19_Witness ==
    /\ entry = "run_upsc_daily"
    /\ prior_run
    /\ completed = Stages
    /\ pc = "exit"
    /\ exit_code = 0
    /\ video_file = "new"

\* C20: once the audio stage of a run is over, no chunk file written by an
\* earlier run is left in the chunks directory.
C20_NoPriorChunkAfterAudioStage ==
    Done("Audio") => chunk_disk.old = {}

-----------------------------------------------------------------------------
(* Properties of the news collectors *)

\* the position of the first article of all_articles with the title key of a
FirstWithKey(a) ==
    CHOOSE k \in 1..Len(all_articles) :
        /\ title_key(all_articles[k]) = title_key(a)
        /\ \A j \in 1..(k - 1) : title_key(all_articles[j]) # title_key(a)

\* C12: the list a news collector returns (UPSCNewsCollector.fetch_all_news
\* as well as NewsScraper.get_daily_news, whose list the daily run hands to
\* script generation) holds at most one article per title key (lowercased
\* title, first 50 characters), and it is the first one seen.
C12_OneArticlePerTitleKey ==
    news_pc \in {"returned", "done"} =>
        /\ \A i, j \in 1..Len(news_out) :
              i # j => title_key(news_out[i]) # title_key(news_out[j])
        /\ \A i \in 1..Len(news_out) :
              news_out[i] = all_articles[FirstWithKey(news_out[i])]

\* the text is_upsc_relevant looks at, for the entry that was classified
ClassifiedText ==
    LET e == fetch_log[1].entries[1]
    IN  Lower(e.title \o <<" ">> \o e.summary)

HasRelevanceKeyword == \E keyword \in upsc_keywords : Contains(ClassifiedText, keyword)
HasExclusionKeyword == \E word \in skip_keywords : Contains(ClassifiedText, word)

SourceCount ==
    IF collector = "NewsScraper" THEN Len(ScraperSources) ELSE Len(Feeds)

\* C14: when the fetch of a source fails, that source adds no article, the
\* articles collected before stay in the list and the collector goes on
\* with the next source: it returns only after every source was tried.
C14_FetchFailureIsZeroArticles ==
    /\ [][(Len(fetch_log') = Len(fetch_log) + 1
           /\ fetch_log'[Len(fetch_log')].raised = "parse")
          => (/\ all_articles' = all_articles
              /\ news_pc' = "fetch"
              /\ src_i' = src_i + 1)]_vars
    /\ [](news_pc \in {"returned", "done"} => Len(fetch_log) = SourceCount)

\* C14 witness: the second of the scraper's three feeds failed; the articles
\* of the first and of the third are all in the returned list
C14_Witness ==
    /\ collector = "NewsScraper"
    /\ news_pc = "returned"
    /\ fetch_log[1].raised = "no" /\ fetch_log[1].entries # <<>>
    /\ fetch_log[2].raised = "parse"
    /\ fetch_log[3].raised = "no" /\ fetch_log[3].entries # <<>>
    /\ Len(news_out) = Len(fetch_log[1].entries) + Len(fetch_log[3].entries)

\* a is ranked before b, or level with it
RankedNoLater(a, b) ==
    LET pa == a.source \in {"pib", "drishti_ias", "vision_ias", "mea_india"}
        pb == b.source \in {"pib", "drishti_ias", "vision_ias", "mea_india"}
    IN  \/ pa /\ ~pb
        \/ (pa <=> pb) /\ Len(a.summary) >= Len(b.summary)

\* C16: fetch_all_news returns at most the top 15 (here ScaledTopN)
\* articles: priority sources first, inside each group the longer summary
\* first, and what is returned is the head of the ranked list of all
\* deduplicated relevant articles.
C16_TopOfRankedList ==
    (collector = "UPSCNewsCollector" /\ news_pc \in {"returned", "done"}) =>
        LET unique == Dedupe(all_articles, {})
            left_out == {unique[k] : k \in 1..Len(unique)} \
                        {news_out[k] : k \in 1..Len(news_out)}
        IN  /\ Len(news_out) <= ScaledTopN
            /\ Len(news_out) = IF Len(unique) < ScaledTopN
                               THEN Len(unique) ELSE ScaledTopN
            /\ \A i, j \in 1..Len(news_out) :
                  i < j => RankedNoLater(news_out[i], news_out[j])
            /\ \A i \in 1..Len(news_out) :
                  \E k \in 1..Len(unique) : unique[k] = news_out[i]
            /\ \A i \in 1..Len(news_out) :
                  \A b \in left_out : RankedNoLater(news_out[i], b)

\* C16 witness: three distinct relevant articles were collected, a
\* non-priority one first; the returned list is cut to the top and starts
\* with the priority source's article
C16_Witness ==
    /\ collector = "UPSCNewsCollector"
    /\ news_pc = "returned"
    /\ Len(Dedupe(all_articles, {})) > ScaledTopN
    /\ Len(news_out) = ScaledTopN
    /\ all_articles[1].source = "hindu_national"
    /\ news_out[1].source = "mea_india"
    /\ news_out[2].source = "hindu_national"

-----------------------------------------------------------------------------
(* Properties of the assembled script *)

\* C21: the script generate_hindi_script returns is the intro, then the item
\* bodies with a blank-line separator between neighbours, then the outro;
\* the k-th body is the one made for the k-th article, and intro and outro
\* are the fixed pieces (the date is all that is filled in).
C21_ScriptIsIntroItemsOutro ==
    pc = "save_script" =>
        LET n == Len(news_items)
            t == script.text
        IN  /\ Len(t) = (IF n = 0 THEN 2 ELSE 2 * n + 1)
            /\ t[1] = Intro
            /\ t[Len(t)] = Outro
            /\ \A k \in 1..n :
                  /\ t[2 * k] = news_items[k]
                  /\ t[2 * k].kind \in {"generated", "fallback"}
                  /\ t[2 * k].item = articles[k]
            /\ \A k \in 1..(n - 1) : t[2 * k + 1] = Separator

\* C21 witness: a script for three articles was returned, its bodies a mix
\* of generated texts and fallbacks
C21_Witness ==
    /\ pc = "save_script"
    /\ Len(articles) = 3
    /\ Len(script.text) = 7
    /\ script.text[2].kind = "generated"
    /\ script.text[4].kind = "fallback"
    /\ script.text[6].kind = "generated"

\* the articles generation requests may be made for: the first ten, or all
\* of them if there are fewer
Sendable == IF Len(articles) < 10 THEN Len(articles) ELSE 10

\* C22: generate_hindi_script sends requests only for the first min(n, 10)
\* articles, item after item in index order; a list of more than ten
\* articles gives exactly ten item bodies and no article beyond the tenth
\* is ever sent.
C22_OnlyFirstTenArticlesSent ==
    pc \in {"gen_loop", "gen_retry", "save_script"} =>
        /\ \A k \in 1..Len(sent_articles) :
              /\ sent_articles[k] \in 1..Sendable
              /\ sent_articles[k] = articles[sent_articles[k]]
        /\ sent_articles # <<>> => sent_articles[1] = 1
        /\ \A k \in 1..(Len(sent_articles) - 1) :
              \/ sent_articles[k + 1] = sent_articles[k]
              \/ sent_articles[k + 1] = sent_articles[k] + 1
        /\ Len(news_items) <= Sendable
        /\ pc = "save_script" =>
              /\ Len(script.items) = Sendable
              /\ sent_articles # <<>> => sent_articles[Len(sent_articles)] = Sendable

\* C22 witness: a script was returned for a news file of more than ten
\* articles; it has ten bodies and the last request was for the tenth
C22_Witness ==
    /\ pc = "save_script"
    /\ Len(articles) > 10
    /\ Len(script.items) = 10
    /\ sent_articles[Len(sent_articles)] = 10

-----------------------------------------------------------------------------
(* Properties of the audio stage on degenerate scripts *)

\* generate_audio got as far as splitting the script of this run
ScriptWasSplit == azure_creds /\ Ran("Audio")

\* C23: no chunk split_text_into_chunks hands to generate_audio is empty;
\* a script without any non-empty sentence (empty, or nothing but blanks and
\* sentence marks) gives no chunk at all, and then generate_audio makes no
\* synthesis call and reports failure.
C23_NoEmptyChunkNoChunkFails ==
    ScriptWasSplit =>
        /\ \A k \in 1..Len(audio_chunks) : audio_chunks[k] # <<>>
        /\ Sentences(script_file.content) = <<>> =>
              /\ audio_chunks = <<>>
              /\ synth_ok = <<>>
              /\ ~combine_in.ran
              /\ pc \in {"synth_loop", "exit"}
              /\ pc = "exit" => (result = None /\ failed = "Audio")

\* C23 witness: create_upsc_video.py ran on a script of blanks and full
\* stops only; it ended in failure without a synthesis call
C23_Witness ==
    /\ entry = "create_upsc_video"
    /\ ScriptWasSplit
    /\ Len(script_file.content) >= 2
    /\ \E k \in 1..Len(script_file.content) : script_file.content[k] = "."
    /\ \E k \in 1..Len(script_file.content) : script_file.content[k] = " "
    /\ Sentences(script_file.content) = <<>>
    /\ pc = "exit"
    /\ synth_ok = <<>>
    /\ failed = "Audio"

-----------------------------------------------------------------------------
(* Properties of the background step *)

PexelsFailed == pexels \in {"no_key", "bad_status", "no_photos",
                            "download_error", "processing_error"}

\* C24: whatever goes wrong with the stock-photo service (no API key, a
\* status other than 200, no photo in the answer, an exception while
\* downloading or processing the image), the background step raises nothing
\* and has written the solid fallback background to the background path.
C24_PexelsFailureGivesSolidBackground ==
    PexelsFailed =>
        /\ bg_file = "new"
        /\ bg_kind = "solid"
        /\ failed = "Visual" => thumb_file # "new"

\* C24 witness: the image processing raised, the solid background was
\* written and the run went on to a finished video
C24_Witness ==
    /\ pexels = "processing_error"
    /\ bg_file = "new"
    /\ bg_kind = "solid"
    /\ Done("Video")

====
